---------------------------- MODULE Spec2Model ----------------------------
(***************************************************************************)
(* The halving-add family of the NEON reference layer                      *)
(* (src/neon_ref/arithmetic/vhadd.cpp): twelve entries, each a loop        *)
(*                                                                         *)
(*     T D;  for (int i = 0; i < L; i++) D[i] = (N[i] + M[i]) >> 1;        *)
(*     return D;                                                           *)
(*                                                                         *)
(* over one lane type (s8, s16, s32, u8, u16, u32) and one lane count.     *)
(*                                                                         *)
(* A behaviour is one caller session on one entry: the caller holds two    *)
(* vectors a and b, calls the entry (the arguments are copied into N and   *)
(* M), the loop runs one lane per step, the result is returned into r;     *)
(* the caller then calls again, either on the same vectors or after        *)
(* changing a single lane of one of them.                                  *)
(*                                                                         *)
(* C++ arithmetic is modelled as the language defines it:                  *)
(*   - lanes narrower than int are promoted to int before the addition,    *)
(*     so the sum of two 8- or 16-bit lanes is exact;                      *)
(*   - uint32_t + uint32_t is unsigned arithmetic modulo 2^32;             *)
(*   - int32_t + int32_t outside the range of int is undefined behaviour.  *)
(*     The body of an entry is compiled once, so within one build the      *)
(*     outcome is a fixed function of the operands; which function is the  *)
(*     build's choice.  The variable ovf holds that choice, drawn in Init: *)
(*     "wrap" (a two's complement add instruction) or "wide" (the sum      *)
(*     kept in a wider register, or add and shift fused into a halving-add *)
(*     instruction);                                                       *)
(*   - >> 1 on an unsigned operand is a logical shift; on a negative int   *)
(*     it is implementation-defined and an arithmetic shift on every       *)
(*     compiler this code base builds with (gcc, clang, msvc);             *)
(*   - the assignment to D[i] converts to the lane type (modulo 2^w);      *)
(*   - D is declared without an initializer: a lane the loop does not      *)
(*     write holds an indeterminate value when D is returned.              *)
(***************************************************************************)
EXTENDS Integers, FiniteSets, Sequences, TLC

VARIABLES
    entry,    \* the entry this session calls
    ovf,      \* what this build's int addition does on overflow
    a, b,     \* the caller's two vectors
    N, M,     \* the entry's by-value parameters
    D,        \* the entry's local result; its domain is the lanes written
    i,        \* the loop index
    sum,      \* N[i] + M[i] as evaluated for the lane processed last
    val,      \* (N[i] + M[i]) >> 1 for that lane, before the store
    r,        \* the vector the last call returned
    prev,     \* arguments and result of the call before the last one
    pc,       \* "call", "loop", "done"
    calls,    \* calls entered so far
    patched,  \* the caller has changed a lane between two calls
    cin,      \* concurrent callers: the argument vectors, by object
    cD,       \* concurrent callers: the result objects D of the calls
    thr,      \* concurrent callers: each caller's call
    hin,      \* image helpers: the function called and its arguments
    hout,     \* image helpers: the value returned
    hpc       \* image helpers: "ready", "done"

\* the state of the concurrent callers
concVars == <<cin, cD, thr>>

\* the state of the image helpers
helperVars == <<hin, hout, hpc>>

vars ==
    <<entry, ovf, a, b, N, M, D, i, sum, val, r, prev, pc, calls, patched,
      concVars, helperVars>>

\* no concurrent callers
ConcIdle == cin = <<>> /\ cD = <<>> /\ thr = <<>>

\* no image helper called
HelperIdle == hin = <<>> /\ hout = <<>> /\ hpc = "idle"

-----------------------------------------------------------------------------
(* Bounds of the session *)

\* calls per session
MaxCalls == 2

\* concurrent callers
NThreads == 2

\* och::clip, och::in_range: val, minval and maxval lie in -MaxAbs .. MaxAbs
MaxAbs == 2

\* matrices have up to MaxDim rows and columns and elements in 0 .. MaxElem
MaxDim == 2
MaxElem == 3

\* och::get_regular_polygon_vertices: n lies in -1 .. MaxSides
MaxSides == 52

\* the caller changes a lane below this index, or the last lane
MaxPatchLane == 2

\* a loop that takes the lanes out of order takes one of the first or of the
\* last this many lanes not yet processed
ReorderWindow == 2

-----------------------------------------------------------------------------
(* Shapes *)

Entries64 ==
    {"vhadd_s8", "vhadd_s16", "vhadd_s32", "vhadd_u8", "vhadd_u16", "vhadd_u32"}

Entries128 ==
    {"vhaddq_s8", "vhaddq_s16", "vhaddq_s32", "vhaddq_u8", "vhaddq_u16", "vhaddq_u32"}

Entries == Entries64 \cup Entries128

\* width in bits of int and unsigned int
IntBits == 32

\* element width of the entry's lane type
ElemBits(e) ==
    CASE e \in {"vhadd_s8", "vhadd_u8", "vhaddq_s8", "vhaddq_u8"} -> 8
      [] e \in {"vhadd_s16", "vhadd_u16", "vhaddq_s16", "vhaddq_u16"} -> 16
      [] e \in {"vhadd_s32", "vhadd_u32", "vhaddq_s32", "vhaddq_u32"} -> 32

\* signedness of the entry's lane type
IsSigned(e) ==
    e \in {"vhadd_s8", "vhadd_s16", "vhadd_s32", "vhaddq_s8", "vhaddq_s16", "vhaddq_s32"}

\* number of lanes of the entry's vector type (int8x8_t: 8, ... uint32x4_t: 4)
Lanes(e) ==
    CASE e \in {"vhadd_s8", "vhadd_u8"} -> 8
      [] e \in {"vhadd_s16", "vhadd_u16"} -> 4
      [] e \in {"vhadd_s32", "vhadd_u32"} -> 2
      [] e \in {"vhaddq_s8", "vhaddq_u8"} -> 16
      [] e \in {"vhaddq_s16", "vhaddq_u16"} -> 8
      [] e \in {"vhaddq_s32", "vhaddq_u32"} -> 4

\* a copy-and-paste slip: the q entries keep the loop bound of the d entries
LoopBoundOfD(e) ==
    CASE ElemBits(e) = 8 -> 8
      [] ElemBits(e) = 16 -> 4
      [] ElemBits(e) = 32 -> 2

\* an off-by-one slip: the loop stops one lane early
LoopBoundShort(e) == Lanes(e) - 1

\* the constant of the entry's loop condition, i < 8, i < 4, ...
LoopBound(e) ==
    CASE e \in {"vhadd_s8", "vhadd_u8"} -> 8
      [] e \in {"vhadd_s16", "vhadd_u16"} -> 4
      [] e \in {"vhadd_s32", "vhadd_u32"} -> 2
      [] e \in {"vhaddq_s8", "vhaddq_u8"} -> 16
      [] e \in {"vhaddq_s16", "vhaddq_u16"} -> 8
      [] e \in {"vhaddq_s32", "vhaddq_u32"} -> 4

LaneIdx(e) == 0 .. (Lanes(e) - 1)

\* width in bits of the entry's vector type: the d registers of vhadd_*, the
\* q registers of vhaddq_*
VectorBits(e) == IF e \in Entries64 THEN 64 ELSE 128

-----------------------------------------------------------------------------
(* Integers beyond TLC's 32-bit ones: a value is hi * 2^16 + lo with      *)
(* 0 <= lo < 2^16, held as [hi, lo]; every value has one such form, so     *)
(* equality of values is equality of records.                              *)

LimbBase == 2^16

ZNorm(h, l) == [hi |-> h + (l \div LimbBase), lo |-> l % LimbBase]

\* the value of an integer literal
Z(v) == ZNorm(0, v)

ZAdd(x, y) == ZNorm(x.hi + y.hi, x.lo + y.lo)

ZSub(x, y) == ZNorm(x.hi - y.hi, x.lo - y.lo)

ZNeg(x) == ZNorm(-x.hi, -x.lo)

ZLe(x, y) == x.hi < y.hi \/ (x.hi = y.hi /\ x.lo <= y.lo)

ZLt(x, y) == x.hi < y.hi \/ (x.hi = y.hi /\ x.lo < y.lo)

\* 2^k, 0 <= k <= 32
ZPow2(k) == IF k < 16 THEN [hi |-> 0, lo |-> 2^k] ELSE [hi |-> 2^(k - 16), lo |-> 0]

\* x mod 2^w, w in {8, 16, 32}
ZMod2(x, w) ==
    IF w <= 16 THEN [hi |-> 0, lo |-> x.lo % 2^w]
               ELSE [hi |-> x.hi % 2^(w - 16), lo |-> x.lo]

\* floor(x / 2)
ZHalf(x) == [hi |-> x.hi \div 2, lo |-> ((x.hi % 2) * LimbBase + x.lo) \div 2]

-----------------------------------------------------------------------------
(* Lane domains *)

DomMin(e) == IF IsSigned(e) THEN ZNeg(ZPow2(ElemBits(e) - 1)) ELSE Z(0)

DomMax(e) ==
    IF IsSigned(e) THEN ZSub(ZPow2(ElemBits(e) - 1), Z(1))
                   ELSE ZSub(ZPow2(ElemBits(e)), Z(1))

InDomain(v, e) == ZLe(DomMin(e), v) /\ ZLe(v, DomMax(e))

-----------------------------------------------------------------------------
(* Arithmetic of one lane *)

\* v converted to a signed integer type of w bits
WrapSigned(v, w) == ZSub(ZMod2(ZAdd(v, ZPow2(w - 1)), w), ZPow2(w - 1))

\* v converted to an unsigned integer type of w bits
WrapUnsigned(v, w) == ZMod2(v, w)

\* a slip: the addition done in the lane's own width, without promotion
IntAddLaneWidth(x, y, e, o) ==
    IF IsSigned(e) THEN WrapSigned(ZAdd(x, y), ElemBits(e))
                   ELSE WrapUnsigned(ZAdd(x, y), ElemBits(e))

\* x + y on two lane values of entry e
IntAdd(x, y, e, o) ==
    IF ElemBits(e) < IntBits
    THEN ZAdd(x, y)
    ELSE IF ~IsSigned(e)
         THEN WrapUnsigned(ZAdd(x, y), IntBits)
         ELSE IF WrapSigned(ZAdd(x, y), IntBits) = ZAdd(x, y)
              THEN ZAdd(x, y)
              ELSE IF o = "wrap" THEN WrapSigned(ZAdd(x, y), IntBits) ELSE ZAdd(x, y)

\* a slip: the neighbouring lane of M is read
LaneSumNeighbour(n, m, k, e, o) == IntAdd(n[k], m[(k + 1) % Lanes(e)], e, o)

\* a slip: lane 0 of M is read for every lane
LaneSumFirst(n, m, k, e, o) == IntAdd(n[k], m[0], e, o)

\* N[i] + M[i]
LaneSum(n, m, k, e, o) == IntAdd(n[k], m[k], e, o)

\* a slip: / 2, which rounds toward zero
DivTowardZero(v) == IF ZLt(v, Z(0)) THEN ZNeg(ZHalf(ZNeg(v))) ELSE ZHalf(v)

\* a slip: the shift left out
NoShift(v) == v

\* v >> 1
Shr1(v) == ZHalf(v)

\* a slip: the result vector declared with the unsigned lane type
StoreUnsigned(v, e) == WrapUnsigned(v, ElemBits(e))

\* the conversion of the assignment D[i] = v
Store(v, e) ==
    IF IsSigned(e) THEN WrapSigned(v, ElemBits(e))
                   ELSE WrapUnsigned(v, ElemBits(e))

\* (N[k] + M[k]) >> 1 converted to the lane type
LaneResult(n, m, k, e, o) == Store(Shr1(LaneSum(n, m, k, e, o)), e)

\* a slip: the result stored one lane further on
LaneStmtShifted(d, n, m, k, e, o) ==
    (((k + 1) % Lanes(e)) :> LaneResult(n, m, k, e, o)) @@ d

\* a slip: the result appended after the lanes written so far, as into a
\* growable container
LaneStmtAppend(d, n, m, k, e, o) ==
    (Cardinality(DOMAIN d) :> LaneResult(n, m, k, e, o)) @@ d

\* the statement D[k] = (N[k] + M[k]) >> 1: D after it
LaneStmt(d, n, m, k, e, o) == (k :> LaneResult(n, m, k, e, o)) @@ d

-----------------------------------------------------------------------------
(* Inputs of the session *)

\* lane values the caller uses: the ends of the domain and small values
LaneVals(e) ==
    {v \in {DomMin(e), Z(-1), Z(0), Z(1), Z(2), Z(4), DomMax(e)} : InDomain(v, e)}

\* values an unwritten lane of D may hold when D is returned
Indeterminate(e) == {DomMin(e), DomMax(e)}

Broadcast(e, x) == [k \in LaneIdx(e) |-> x]

PatchLanes(e) == {q \in LaneIdx(e) : q < MaxPatchLane \/ q = Lanes(e) - 1}

NoCall == [a |-> <<>>, b |-> <<>>, r |-> <<>>]

-----------------------------------------------------------------------------
(* The session *)

Init ==
    /\ entry \in Entries
    /\ ovf \in (IF entry \in {"vhadd_s32", "vhaddq_s32"} THEN {"wrap", "wide"} ELSE {"wrap"})
    /\ \E x, y \in LaneVals(entry) :
          /\ a = Broadcast(entry, x)
          /\ b = Broadcast(entry, y)
    /\ N = <<>>
    /\ M = <<>>
    /\ D = <<>>
    /\ i = 0
    /\ sum = Z(0)
    /\ val = Z(0)
    /\ r = <<>>
    /\ prev = NoCall
    /\ pc = "call"
    /\ calls = 0
    /\ patched = FALSE
    /\ ConcIdle
    /\ HelperIdle

\* the call: the arguments are passed by value, D is declared, i = 0
Enter ==
    /\ pc = "call"
    /\ N' = a
    /\ M' = b
    /\ D' = <<>>
    /\ i' = 0
    /\ sum' = Z(0)
    /\ val' = Z(0)
    /\ calls' = calls + 1
    /\ pc' = "loop"
    /\ UNCHANGED <<concVars, helperVars, entry, ovf, a, b, r, prev, patched>>

\* a slip: the parameters taken by reference and the result written through
\* the first one
LoopBodyInPlace ==
    /\ pc = "loop"
    /\ i < LoopBound(entry)
    /\ sum' = LaneSum(N, M, i, entry, ovf)
    /\ val' = Shr1(sum')
    /\ D' = LaneStmt(D, N, M, i, entry, ovf)
    /\ a' = [a EXCEPT ![i] = D'[i]]
    /\ N' = a'
    /\ i' = i + 1
    /\ UNCHANGED <<concVars, helperVars, entry, ovf, b, M, r, prev, pc, calls, patched>>

\* one iteration: D[i] = (N[i] + M[i]) >> 1; i++
LoopBody ==
    /\ pc = "loop"
    /\ i < LoopBound(entry)
    /\ sum' = LaneSum(N, M, i, entry, ovf)
    /\ val' = Shr1(sum')
    /\ D' = LaneStmt(D, N, M, i, entry, ovf)
    /\ i' = i + 1
    /\ UNCHANGED <<concVars, helperVars, entry, ovf, a, b, N, M, r, prev, pc, calls, patched>>

\* return D: the caller receives a copy; an unwritten lane is indeterminate
Return ==
    /\ pc = "loop"
    /\ ~(i < LoopBound(entry))
    /\ \E g \in Indeterminate(entry) :
          r' = [k \in LaneIdx(entry) |-> IF k \in DOMAIN D THEN D[k] ELSE g]
    /\ pc' = "done"
    /\ UNCHANGED <<concVars, helperVars, entry, ovf, a, b, N, M, D, i, sum, val, prev, calls, patched>>

\* the caller calls the entry again on the same vectors
Reinvoke ==
    /\ pc = "done"
    /\ calls < MaxCalls
    /\ prev' = [a |-> a, b |-> b, r |-> r]
    /\ pc' = "call"
    /\ UNCHANGED <<concVars, helperVars, entry, ovf, a, b, N, M, D, i, sum, val, r, calls, patched>>

\* the caller changes one lane of one vector and calls the entry again
Patch ==
    /\ pc = "done"
    /\ calls < MaxCalls
    /\ ~patched
    /\ \E q \in PatchLanes(entry), z \in LaneVals(entry) :
          \/ /\ z # a[q]
             /\ a' = [a EXCEPT ![q] = z]
             /\ b' = b
          \/ /\ z # b[q]
             /\ b' = [b EXCEPT ![q] = z]
             /\ a' = a
    /\ prev' = [a |-> a, b |-> b, r |-> r]
    /\ patched' = TRUE
    /\ pc' = "call"
    /\ UNCHANGED <<concVars, helperVars, entry, ovf, N, M, D, i, sum, val, r, calls>>

\* the shape of the state: vectors of the entry's lane type, D partly written
TypeOK ==
    /\ entry \in Entries
    /\ ovf \in {"wrap", "wide"}
    /\ pc \in {"call", "loop", "done"}
    /\ calls \in 0 .. MaxCalls
    /\ patched \in BOOLEAN
    /\ i \in 0 .. Lanes(entry)
    /\ DOMAIN a = LaneIdx(entry) /\ \A k \in LaneIdx(entry) : InDomain(a[k], entry)
    /\ DOMAIN b = LaneIdx(entry) /\ \A k \in LaneIdx(entry) : InDomain(b[k], entry)
    /\ calls > 0 => (DOMAIN N = LaneIdx(entry) /\ DOMAIN M = LaneIdx(entry))
    /\ DOMAIN D = 0 .. (i - 1)
    /\ pc = "done" => DOMAIN r = LaneIdx(entry)

Next == Enter \/ LoopBody \/ Return \/ Reinvoke \/ Patch

Spec == Init /\ [][Next]_vars

-----------------------------------------------------------------------------
(* The loop run in another order of the lanes: the entry is called once as   *)
(* written and then again with the same statement applied to the lanes in    *)
(* an order other than ascending.                                            *)

\* the lane values in a fixed order
LaneValSeq(e) ==
    SelectSeq(<<DomMin(e), Z(-1), Z(0), Z(1), Z(2), Z(4), DomMax(e)>>,
              LAMBDA v : InDomain(v, e))

\* a vector whose lanes run through the lane values, starting at the s-th
Pattern(e, s) ==
    [k \in LaneIdx(e) |-> LaneValSeq(e)[((k + s) % Len(LaneValSeq(e))) + 1]]

\* the lanes not yet processed
Unwritten == LaneIdx(entry) \ DOMAIN D

\* the lanes the reordered loop may take next
NextLanes ==
    {k \in Unwritten :
        \/ Cardinality({j \in Unwritten : j < k}) < ReorderWindow
        \/ Cardinality({j \in Unwritten : j > k}) < ReorderWindow}

InitAnyOrder ==
    /\ entry \in Entries
    /\ ovf \in (IF entry \in {"vhadd_s32", "vhaddq_s32"} THEN {"wrap", "wide"} ELSE {"wrap"})
    /\ \E s \in {0, 2}, t \in {0, 3} :
          /\ a = Pattern(entry, s)
          /\ b = Pattern(entry, t)
    /\ N = <<>>
    /\ M = <<>>
    /\ D = <<>>
    /\ i = 0
    /\ sum = Z(0)
    /\ val = Z(0)
    /\ r = <<>>
    /\ prev = NoCall
    /\ pc = "call"
    /\ calls = 0
    /\ patched = FALSE
    /\ ConcIdle
    /\ HelperIdle

\* the caller calls the reordered loop on the same vectors
ReinvokeAnyOrder ==
    /\ pc = "done"
    /\ calls = 1
    /\ prev' = [a |-> a, b |-> b, r |-> r]
    /\ pc' = "call_any"
    /\ UNCHANGED <<concVars, helperVars, entry, ovf, a, b, N, M, D, i, sum, val, r, calls, patched>>

EnterAnyOrder ==
    /\ pc = "call_any"
    /\ N' = a
    /\ M' = b
    /\ D' = <<>>
    /\ i' = 0
    /\ sum' = Z(0)
    /\ val' = Z(0)
    /\ calls' = calls + 1
    /\ pc' = "loop_any"
    /\ UNCHANGED <<concVars, helperVars, entry, ovf, a, b, r, prev, patched>>

\* one iteration on a lane k of those not yet processed; i counts them
LoopBodyAnyOrder ==
    /\ pc = "loop_any"
    /\ i < LoopBound(entry)
    /\ \E k \in NextLanes :
          /\ sum' = LaneSum(N, M, k, entry, ovf)
          /\ val' = Shr1(sum')
          /\ D' = LaneStmt(D, N, M, k, entry, ovf)
    /\ i' = i + 1
    /\ UNCHANGED <<concVars, helperVars, entry, ovf, a, b, N, M, r, prev, pc, calls, patched>>

ReturnAnyOrder ==
    /\ pc = "loop_any"
    /\ ~(i < LoopBound(entry))
    /\ \E g \in Indeterminate(entry) :
          r' = [k \in LaneIdx(entry) |-> IF k \in DOMAIN D THEN D[k] ELSE g]
    /\ pc' = "done"
    /\ UNCHANGED <<concVars, helperVars, entry, ovf, a, b, N, M, D, i, sum, val, prev, calls, patched>>

NextAnyOrder ==
    \/ Enter
    \/ LoopBody
    \/ Return
    \/ ReinvokeAnyOrder
    \/ EnterAnyOrder
    \/ LoopBodyAnyOrder
    \/ ReturnAnyOrder

SpecAnyOrder == InitAnyOrder /\ [][NextAnyOrder]_vars

-----------------------------------------------------------------------------
(* Concurrent callers.  Each caller calls an entry on argument vectors that  *)
(* it shares with the first caller or that are its own; nobody writes the    *)
(* argument vectors.  The callers' loop iterations interleave in any order.  *)
(* An iteration touches the call's own N, M and D only (parameters by value, *)
(* D a local of the call), so it is one step.                                *)
(* The 64-bit and the 128-bit entry of a lane type are two functions, each   *)
(* compiled on its own: what an overflowing int addition does is chosen per  *)
(* entry.                                                                    *)

ThreadIds == 1 .. NThreads

\* the entry of the same lane type and the other vector width
Sibling(e) ==
    CASE e = "vhadd_s8" -> "vhaddq_s8"
      [] e = "vhadd_s16" -> "vhaddq_s16"
      [] e = "vhadd_s32" -> "vhaddq_s32"
      [] e = "vhadd_u8" -> "vhaddq_u8"
      [] e = "vhadd_u16" -> "vhaddq_u16"
      [] e = "vhadd_u32" -> "vhaddq_u32"
      [] e = "vhaddq_s8" -> "vhadd_s8"
      [] e = "vhaddq_s16" -> "vhadd_s16"
      [] e = "vhaddq_s32" -> "vhadd_s32"
      [] e = "vhaddq_u8" -> "vhadd_u8"
      [] e = "vhaddq_u16" -> "vhadd_u16"
      [] e = "vhaddq_u32" -> "vhadd_u32"

\* what the build may make of an overflowing int addition in entry e
OvfChoices(e) ==
    IF e \in {"vhadd_s32", "vhaddq_s32"} THEN {"wrap", "wide"} ELSE {"wrap"}

\* a slip: D declared static, one object per entry shared by all its calls
ResultSlotStatic(e, t) == <<e, 0>>

\* the object D of caller t's call of entry e: a local of the call
ResultSlot(e, t) == <<e, t>>

\* the session's variables, unused by the other specifications
SessionIdle ==
    /\ entry = "none"
    /\ ovf = "none"
    /\ a = <<>>
    /\ b = <<>>
    /\ N = <<>>
    /\ M = <<>>
    /\ D = <<>>
    /\ i = 0
    /\ sum = Z(0)
    /\ val = Z(0)
    /\ r = <<>>
    /\ prev = NoCall
    /\ pc = "idle"
    /\ calls = 0
    /\ patched = FALSE

\* argument objects 1 and 2 are of entry e, object 3 of its sibling
ConcInputs(e, s, t) ==
    [id \in 1 .. 3 |->
        CASE id = 1 -> [e |-> e, a |-> Pattern(e, s), b |-> Pattern(e, t)]
          [] id = 2 -> [e |-> e, a |-> Pattern(e, t), b |-> Pattern(e, s)]
          [] id = 3 -> [e |-> Sibling(e), a |-> Pattern(Sibling(e), s),
                        b |-> Pattern(Sibling(e), t)]]

InitConc ==
    /\ SessionIdle
    /\ HelperIdle
    /\ \E e \in Entries, s \in {0, 2}, t \in {0, 3} :
          /\ cin = ConcInputs(e, s, t)
          /\ cD = [sl \in {e, Sibling(e)} \X (0 .. NThreads) |-> <<>>]
          /\ \E o1 \in OvfChoices(e), o2 \in OvfChoices(Sibling(e)) :
             \E src \in [ThreadIds -> 1 .. 3] :
                /\ src[1] = 1
                /\ thr = [c \in ThreadIds |->
                            [src |-> src[c],
                             entry |-> cin[src[c]].e,
                             ovf |-> IF cin[src[c]].e = e THEN o1 ELSE o2,
                             N |-> <<>>, M |-> <<>>, i |-> 0,
                             pc |-> "call", r |-> <<>>]]

\* caller c enters its call: the arguments are copied, D is declared
ConcEnter(c) ==
    /\ thr[c].pc = "call"
    /\ thr' = [thr EXCEPT ![c].N = cin[thr[c].src].a,
                           ![c].M = cin[thr[c].src].b,
                           ![c].i = 0,
                           ![c].pc = "loop"]
    /\ cD' = [cD EXCEPT ![ResultSlot(thr[c].entry, c)] = <<>>]
    /\ UNCHANGED <<cin, helperVars, entry, ovf, a, b, N, M, D, i, sum, val, r,
                   prev, pc, calls, patched>>

\* one iteration of caller c's loop
ConcLoopBody(c) ==
    /\ thr[c].pc = "loop"
    /\ thr[c].i < LoopBound(thr[c].entry)
    /\ cD' = [cD EXCEPT ![ResultSlot(thr[c].entry, c)] =
                  LaneStmt(@, thr[c].N, thr[c].M, thr[c].i, thr[c].entry, thr[c].ovf)]
    /\ thr' = [thr EXCEPT ![c].i = @ + 1]
    /\ UNCHANGED <<cin, helperVars, entry, ovf, a, b, N, M, D, i, sum, val, r,
                   prev, pc, calls, patched>>

\* caller c's call returns D
ConcReturn(c) ==
    /\ thr[c].pc = "loop"
    /\ ~(thr[c].i < LoopBound(thr[c].entry))
    /\ \E g \in Indeterminate(thr[c].entry) :
          thr' = [thr EXCEPT
                    ![c].r = [k \in LaneIdx(thr[c].entry) |->
                                LET d == cD[ResultSlot(thr[c].entry, c)]
                                IN  IF k \in DOMAIN d THEN d[k] ELSE g],
                    ![c].pc = "done"]
    /\ UNCHANGED <<cin, cD, helperVars, entry, ovf, a, b, N, M, D, i, sum, val, r,
                   prev, pc, calls, patched>>

NextConc ==
    \/ \E c \in ThreadIds : ConcEnter(c)
    \/ \E c \in ThreadIds : ConcLoopBody(c)
    \/ \E c \in ThreadIds : ConcReturn(c)

SpecConc == InitConc /\ [][NextConc]_vars

-----------------------------------------------------------------------------
(* The image helpers (opencv_helper.hpp, namespace och).  Each is a pure     *)
(* function of its arguments: one call is one step.  A matrix is its rows,   *)
(* cols, channel count cn, depth and its elements at[<<row, col, channel>>]; *)
(* its type is the pair of depth and channel count.  A vertex of the polygon *)
(* is its index k and the radius: the point A = (O.x, O.y - radius) turned   *)
(* by k * 360 / n degrees around the center.                                 *)

Abs(x) == IF x < 0 THEN -x ELSE x

MaxOf(S) == CHOOSE m \in S : \A x \in S : x <= m

MinOf(S) == CHOOSE m \in S : \A x \in S : m <= x

\* a slip: the bounds are taken in the order given
ClipNoSwap(v, minval, maxval) ==
    LET r1 == IF v < minval THEN minval ELSE v
    IN  IF v > maxval THEN maxval ELSE r1

\* och::clip
Clip(v, minval0, maxval0) ==
    LET swap == minval0 > maxval0
        minval == IF swap THEN maxval0 ELSE minval0
        maxval == IF swap THEN minval0 ELSE maxval0
        r1 == IF v < minval THEN minval ELSE v
    IN  IF v > maxval THEN maxval ELSE r1

\* och::in_range
InRange(v, minval0, maxval0) ==
    LET swap == minval0 > maxval0
        minval == IF swap THEN maxval0 ELSE minval0
        maxval == IF swap THEN minval0 ELSE maxval0
    IN  IF v < minval \/ v > maxval THEN FALSE ELSE TRUE

\* the depths of a cv::Mat
Depths ==
    {"CV_8U", "CV_8S", "CV_16U", "CV_16S", "CV_32S", "CV_32F", "CV_64F", "CV_16F"}

\* the depths the switch of och::almostEqual dispatches to a comparison
ComparedDepths ==
    {"CV_8U", "CV_8S", "CV_16U", "CV_16S", "CV_32S", "CV_32F", "CV_64F"}

\* cv::Mat::type()
MatType(m) == <<m.depth, m.cn>>

Positions(rows, cols, cn) == (0 .. rows - 1) \X (0 .. cols - 1) \X (0 .. cn - 1)

\* a matrix with every element x
Fill(rows, cols, cn, depth, x) ==
    [rows |-> rows, cols |-> cols, cn |-> cn, depth |-> depth,
     at |-> [q \in Positions(rows, cols, cn) |-> x]]

\* matrix m with the element at position q set to z
SetElem(m, q, z) == [m EXCEPT !.at[q] = z]

\* a slip: a row compared over its first cols elements only
AssertAlmostEqualNoChannels(expected, actual, y, cols, cn, eps) ==
    LET len == cols
    IN  \A j \in 0 .. len - 1 :
            ~(Abs(expected.at[<<y, j \div cn, j % cn>>]
                  - actual.at[<<y, j \div cn, j % cn>>]) > eps)

\* och::assertAlmostEqual<T, PT>: row y; element j of the row is channel
\* j % cn of column j / cn
AssertAlmostEqual(expected, actual, y, cols, cn, eps) ==
    LET len == cols * cn
    IN  \A j \in 0 .. len - 1 :
            ~(Abs(expected.at[<<y, j \div cn, j % cn>>]
                  - actual.at[<<y, j \div cn, j % cn>>]) > eps)

\* och::almostEqual<T, PT>
AlmostEqualTyped(expected, actual, eps) ==
    IF MatType(expected) # MatType(actual) THEN FALSE
    ELSE IF <<expected.cols, expected.rows>> # <<actual.cols, actual.rows>> THEN FALSE
    ELSE \A y \in 0 .. expected.rows - 1 :
            AssertAlmostEqual(expected, actual, y, expected.cols, expected.cn, eps)

\* och::almostEqual
AlmostEqual(expected, actual, eps) ==
    IF expected.rows # actual.rows \/ expected.cols # actual.cols THEN FALSE
    ELSE IF expected.cn # actual.cn THEN FALSE
    ELSE IF MatType(expected) # MatType(actual) THEN FALSE
    ELSE IF expected.depth \in ComparedDepths
         THEN AlmostEqualTyped(expected, actual, eps)
    ELSE FALSE

\* std::abs(x != y): the comparison gives 0 or 1
DiffOfAutoCompare(x, y) == Abs(IF x # y THEN 1 ELSE 0)

\* och::auto_compare<T>: a cv::Scalar, four values
AutoCompare(expected, actual) ==
    IF expected.rows # actual.rows \/ expected.cols # actual.cols
    THEN <<-1, -1, -1, -1>>
    ELSE [k \in 1 .. 4 |->
            IF k - 1 < expected.cn
            THEN MaxOf({0} \cup
                       {DiffOfAutoCompare(expected.at[<<y, x, k - 1>>],
                                          actual.at[<<y, x, k - 1>>]) :
                            y \in 0 .. expected.rows - 1,
                            x \in 0 .. expected.cols - 1})
            ELSE 0]

\* och::get_regular_polygon_vertices
GetRegularPolygonVertices(w, h, n, radius0) ==
    IF n < 3 \/ n >= 50 THEN <<>>
    ELSE LET radius == MinOf({radius0, MinOf({w, h}) \div 2})
         IN  [k \in 1 .. n |-> [k |-> k - 1, radius |-> radius]]

\* pairs of matrices: equal but for one element, or of different rows,
\* cols, channel count or depth
MatPairs(depths) ==
    UNION {
      {<<Fill(rows, cols, cn, depth, x),
         SetElem(Fill(rows, cols, cn, depth, x), q, z)>> :
            q \in Positions(rows, cols, cn), z \in 0 .. MaxElem}
      \cup
      {<<Fill(rows, cols, cn, depth, x), Fill(rows + 1, cols, cn, depth, x)>>,
       <<Fill(rows, cols, cn, depth, x), Fill(rows, cols + 1, cn, depth, x)>>,
       <<Fill(rows, cols, cn, depth, x), Fill(rows, cols, 3 - cn, depth, x)>>}
      \cup
      {<<Fill(rows, cols, cn, depth, x), Fill(rows, cols, cn, d2, x)>> :
            d2 \in depths \ {depth}} :
        rows \in 1 .. MaxDim, cols \in 1 .. MaxDim, cn \in 1 .. 2,
        depth \in depths, x \in 0 .. MaxElem}

HelperCalls ==
    {[fn |-> f, val |-> v, minval |-> lo, maxval |-> hi] :
        f \in {"clip", "in_range"}, v \in -MaxAbs .. MaxAbs,
        lo \in -MaxAbs .. MaxAbs, hi \in -MaxAbs .. MaxAbs}
    \cup
    {[fn |-> "auto_compare", expected |-> mp[1], actual |-> mp[2]] :
        mp \in {x \in MatPairs({"CV_8U"}) : x[1].cn = x[2].cn}}
    \cup
    {[fn |-> "almostEqual", expected |-> mp[1], actual |-> mp[2], eps |-> eps] :
        mp \in MatPairs(Depths), eps \in {0, 1}}
    \cup
    {[fn |-> "get_regular_polygon_vertices", w |-> w, h |-> h, n |-> n,
      radius |-> 100] :
        w \in {150, 640}, h \in {480}, n \in -1 .. MaxSides}

InitHelpers ==
    /\ SessionIdle
    /\ ConcIdle
    /\ hin \in HelperCalls
    /\ hout = <<>>
    /\ hpc = "ready"

ClipCall ==
    /\ hpc = "ready"
    /\ hin.fn = "clip"
    /\ hout' = Clip(hin.val, hin.minval, hin.maxval)
    /\ hpc' = "done"
    /\ UNCHANGED <<concVars, hin, entry, ovf, a, b, N, M, D, i, sum, val, r,
                   prev, pc, calls, patched>>

InRangeCall ==
    /\ hpc = "ready"
    /\ hin.fn = "in_range"
    /\ hout' = InRange(hin.val, hin.minval, hin.maxval)
    /\ hpc' = "done"
    /\ UNCHANGED <<concVars, hin, entry, ovf, a, b, N, M, D, i, sum, val, r,
                   prev, pc, calls, patched>>

AutoCompareCall ==
    /\ hpc = "ready"
    /\ hin.fn = "auto_compare"
    /\ hout' = AutoCompare(hin.expected, hin.actual)
    /\ hpc' = "done"
    /\ UNCHANGED <<concVars, hin, entry, ovf, a, b, N, M, D, i, sum, val, r,
                   prev, pc, calls, patched>>

AlmostEqualCall ==
    /\ hpc = "ready"
    /\ hin.fn = "almostEqual"
    /\ hout' = AlmostEqual(hin.expected, hin.actual, hin.eps)
    /\ hpc' = "done"
    /\ UNCHANGED <<concVars, hin, entry, ovf, a, b, N, M, D, i, sum, val, r,
                   prev, pc, calls, patched>>

GetRegularPolygonVerticesCall ==
    /\ hpc = "ready"
    /\ hin.fn = "get_regular_polygon_vertices"
    /\ hout' = GetRegularPolygonVertices(hin.w, hin.h, hin.n, hin.radius)
    /\ hpc' = "done"
    /\ UNCHANGED <<concVars, hin, entry, ovf, a, b, N, M, D, i, sum, val, r,
                   prev, pc, calls, patched>>

NextHelpers ==
    \/ ClipCall
    \/ InRangeCall
    \/ AutoCompareCall
    \/ AlmostEqualCall
    \/ GetRegularPolygonVerticesCall

SpecHelpers == InitHelpers /\ [][NextHelpers]_vars

-----------------------------------------------------------------------------
(* Properties *)

\* d = floor(s / 2) over the integers: s - 2d is 0 or 1
IsFloorHalf(d, s) == ZSub(s, ZAdd(d, d)) \in {Z(0), Z(1)}

IsOdd(s) == s.lo % 2 = 1

\* the call has returned
Returned == pc = "done"

\* the last call has returned and a call before it is on record
TwoCalls == pc = "done" /\ calls >= 2

\* lanes where the arguments of the last two calls differ
ChangedIn == {k \in LaneIdx(entry) : a[k] # prev.a[k] \/ b[k] # prev.b[k]}

\* lanes where the results of the last two calls differ
ChangedOut == {k \in LaneIdx(entry) : r[k] # prev.r[k]}

\* the last two calls differ in a single lane of one argument
SingleLaneChanged ==
    /\ TwoCalls
    /\ Cardinality(ChangedIn) = 1
    /\ (a = prev.a \/ b = prev.b)

\* C1: in all 12 entries every returned lane D[i] is floor((N[i] + M[i]) / 2),
\* the sum taken over the unbounded integers.
C1_EveryLaneIsFloorOfExactSum ==
    Returned =>
        \A k \in LaneIdx(entry) : IsFloorHalf(r[k], ZAdd(a[k], b[k]))

\* C2: in every entry, the 32-bit ones included, the intermediate sum
\* N[i] + M[i] is the exact sum: it never wraps before the shift, and u32
\* max + max and s32 max + max give max.
C2_SumNeverWraps ==
    /\ i > 0 => sum = ZAdd(N[i - 1], M[i - 1])
    /\ Returned =>
          \A k \in LaneIdx(entry) :
              (a[k] = DomMax(entry) /\ b[k] = DomMax(entry)) => r[k] = DomMax(entry)

\* C3: in vhadd_u8 and vhaddq_u8 the sum of two lanes never wraps through 8
\* bits and every returned lane is floor((a + b) / 2); 255 and 255 give 255,
\* never 127.
C3_U8NoWrap ==
    entry \in {"vhadd_u8", "vhaddq_u8"} =>
        /\ i > 0 =>
              /\ sum = ZAdd(N[i - 1], M[i - 1])
              /\ IsFloorHalf(D[i - 1], ZAdd(N[i - 1], M[i - 1]))
        /\ Returned =>
              \A k \in LaneIdx(entry) :
                  /\ IsFloorHalf(r[k], ZAdd(a[k], b[k]))
                  /\ (a[k] = Z(255) /\ b[k] = Z(255)) =>
                        (r[k] = Z(255) /\ r[k] # Z(127))

\* vhaddq_u8 has returned 255 for a lane holding 255 and 255
C3_Witness ==
    /\ entry = "vhaddq_u8"
    /\ Returned
    /\ \E k \in LaneIdx(entry) : a[k] = Z(255) /\ b[k] = Z(255) /\ r[k] = Z(255)

\* C4: in vhadd_s8 and vhaddq_s8 the result is the sum shifted right
\* arithmetically, rounded toward negative infinity: 1 and 0 give 0, -1 and 0
\* give -1, and an odd sum a + b gives (a + b - 1) / 2.
C4_S8RoundsDown ==
    (entry \in {"vhadd_s8", "vhaddq_s8"} /\ Returned) =>
        \A k \in LaneIdx(entry) :
            /\ IsFloorHalf(r[k], ZAdd(a[k], b[k]))
            /\ IsOdd(ZAdd(a[k], b[k])) =>
                  ZAdd(r[k], r[k]) = ZSub(ZAdd(a[k], b[k]), Z(1))
            /\ (a[k] = Z(1) /\ b[k] = Z(0)) => r[k] = Z(0)
            /\ (a[k] = Z(-1) /\ b[k] = Z(0)) => r[k] = Z(-1)

\* vhadd_s8 has returned -1 for a lane holding -1 and 0, and 0 for one
\* holding 1 and 0
C4_Witness ==
    /\ entry = "vhadd_s8"
    /\ Returned
    /\ \E k \in LaneIdx(entry) : a[k] = Z(-1) /\ b[k] = Z(0) /\ r[k] = Z(-1)
    /\ \E k \in LaneIdx(entry) : a[k] = Z(1) /\ b[k] = Z(0) /\ r[k] = Z(0)

\* C5: in vhaddq_s16, when all 8 lanes of a hold x and all 8 lanes of b hold
\* y, all 8 result lanes hold floor((x + y) / 2); [2]*8 and [4]*8 give [3]*8.
C5_S16QBroadcast ==
    (/\ entry = "vhaddq_s16"
     /\ Returned
     /\ \A k \in 0 .. 7 : a[k] = a[0] /\ b[k] = b[0]) =>
        /\ DOMAIN r = 0 .. 7
        /\ \A k \in 0 .. 7 : IsFloorHalf(r[k], ZAdd(a[0], b[0]))
        /\ (a[0] = Z(2) /\ b[0] = Z(4)) => \A k \in 0 .. 7 : r[k] = Z(3)

\* vhaddq_s16 has returned [3]*8 for [2]*8 and [4]*8
C5_Witness ==
    /\ entry = "vhaddq_s16"
    /\ Returned
    /\ a = [k \in 0 .. 7 |-> Z(2)]
    /\ b = [k \in 0 .. 7 |-> Z(4)]
    /\ r = [k \in 0 .. 7 |-> Z(3)]

\* C6: lane independence: two calls of an entry whose arguments agree at
\* lane i return the same D[i], whatever the other lanes hold.
C6_LaneIndependence ==
    TwoCalls =>
        \A k \in LaneIdx(entry) :
            (a[k] = prev.a[k] /\ b[k] = prev.b[k]) => r[k] = prev.r[k]

\* two calls whose arguments differ at one lane and agree at another have
\* returned different values at the first and the same value at the second
C6_Witness ==
    /\ TwoCalls
    /\ \E j, k \in LaneIdx(entry) :
          /\ j # k
          /\ a[j] # prev.a[j] \/ b[j] # prev.b[j]
          /\ r[j] # prev.r[j]
          /\ a[k] = prev.a[k] /\ b[k] = prev.b[k]
          /\ r[k] = prev.r[k]

\* C7 as stated: changing a single lane of one argument changes exactly one
\* lane of the result.  Stated on the entries with 8- and 16-bit lanes, whose
\* sums cannot overflow, so that what refutes it is the rule itself: the shift
\* drops the low bit of the sum.
C7_ExactlyOneLaneChanges ==
    (SingleLaneChanged /\ ElemBits(entry) < IntBits) => Cardinality(ChangedOut) = 1

\* C7 as amended: changing a single lane of one argument changes at most one
\* lane of the result, and no lane but the one at the changed index.
C7_AtMostTheChangedLane ==
    SingleLaneChanged =>
        /\ ChangedOut \subseteq ChangedIn
        /\ Cardinality(ChangedOut) <= 1

\* a single lane of one argument was changed and the result changed at that
\* lane and nowhere else
C7_Witness ==
    /\ SingleLaneChanged
    /\ patched
    /\ ChangedOut = ChangedIn

\* C8: every lane of every returned vector lies in the lane domain of the
\* entry, as every lane written to D does, and every lane has a result: the
\* loop is never stuck and the returned vector has all the lanes.
C8_ResultInDomain ==
    /\ \A k \in DOMAIN D : InDomain(D[k], entry)
    /\ pc = "loop" => ENABLED (LoopBody \/ Return)
    /\ Returned =>
          /\ DOMAIN r = LaneIdx(entry)
          /\ DOMAIN D = LaneIdx(entry)
          /\ \A k \in LaneIdx(entry) : InDomain(r[k], entry)

\* a signed entry has returned the least value of its domain for a lane
\* holding that value twice
C8_Witness ==
    /\ IsSigned(entry)
    /\ Returned
    /\ \E k \in LaneIdx(entry) :
          a[k] = DomMin(entry) /\ b[k] = DomMin(entry) /\ r[k] = DomMin(entry)

\* C9: the value (N[i] + M[i]) >> 1 lies in the lane domain before it is
\* stored, so the store into D[i] does not change it.
C9_StoreIsLossless ==
    i > 0 =>
        /\ InDomain(val, entry)
        /\ D[i - 1] = val

\* vhadd_u16 has stored 65535 for a lane holding 65535 and 65535
C9_Witness ==
    /\ entry = "vhadd_u16"
    /\ i > 0
    /\ N[i - 1] = Z(65535) /\ M[i - 1] = Z(65535)
    /\ val = Z(65535)
    /\ D[i - 1] = Z(65535)

\* C10: determinism: two calls of an entry on the same arguments return the
\* same vector.
C10_Deterministic ==
    (TwoCalls /\ a = prev.a /\ b = prev.b) => r = prev.r

\* an entry was called twice on the same vectors and returned the same result
C10_Witness ==
    /\ TwoCalls
    /\ ~patched
    /\ a = prev.a /\ b = prev.b
    /\ r = prev.r

\* C11: no entry changes its inputs: during a call the caller's vectors and
\* the entry's own parameters keep their lane values, and when the call has
\* returned the caller's vectors are what was passed in; the result is
\* returned in a vector of its own.
C11_InputsNotMutated ==
    /\ [](Returned => (a = N /\ b = M /\ r = D))
    /\ [][/\ pc \in {"call", "loop"} => (a' = a /\ b' = b)
          /\ pc = "loop" => (N' = N /\ M' = M)]_vars

\* a call has returned a vector that differs from both arguments, which are
\* as they were passed
C11_Witness ==
    /\ Returned
    /\ a = N /\ b = M
    /\ r # a /\ r # b

\* C12: each entry runs its loop over vectorWidth / elementWidth lanes (8, 4,
\* 2 for 64 bits, 16, 8, 4 for 128 bits), indices 0 .. laneCount - 1 in turn;
\* every iteration writes one lane not written before and leaves the written
\* ones alone; on return every lane is written and lane k holds the result
\* for input lanes k.
C12_EveryLaneOnce ==
    /\ [](/\ VectorBits(entry) % ElemBits(entry) = 0
          /\ LoopBound(entry) = VectorBits(entry) \div ElemBits(entry)
          /\ LoopBound(entry) = Lanes(entry)
          /\ i <= LoopBound(entry)
          /\ DOMAIN D = 0 .. (i - 1)
          /\ Returned =>
                /\ i = Lanes(entry)
                /\ DOMAIN r = LaneIdx(entry)
                /\ \A k \in LaneIdx(entry) : r[k] = LaneResult(a, b, k, entry, ovf))
    /\ [][(pc = "loop" /\ pc' = "loop") =>
             /\ i \in LaneIdx(entry)
             /\ i \notin DOMAIN D
             /\ DOMAIN D' = DOMAIN D \cup {i}
             /\ \A k \in DOMAIN D : D'[k] = D[k]
             /\ i' = i + 1]_vars

\* vhaddq_u8 has returned after 16 iterations, and its arguments differ
\* between lanes
C12_Witness ==
    /\ entry = "vhaddq_u8"
    /\ Returned
    /\ i = 16
    /\ DOMAIN r = 0 .. 15
    /\ \E j, k \in 0 .. 15 : a[j] # a[k] /\ r[j] # r[k]

\* C20: the halving add of a vector with itself is that vector, in all 12
\* entries.
C20_SelfAddIsIdentity ==
    (Returned /\ a = b) => r = a

\* C18: evaluation-order independence: an entry's loop run over the lanes
\* in another order returns the vector the ascending loop returns.
C18_OrderIndependent ==
    TwoCalls =>
        /\ a = prev.a /\ b = prev.b
        /\ r = prev.r
        /\ \A k \in LaneIdx(entry) : r[k] = LaneResult(a, b, k, entry, ovf)

\* vhaddq_u16 has returned the vector of the ascending loop from a loop whose
\* last lane processed was not lane 7, on vectors whose lanes differ
C18_Witness ==
    /\ entry = "vhaddq_u16"
    /\ TwoCalls
    /\ r = prev.r
    /\ val # r[7]
    /\ \E j, k \in 0 .. 7 : r[j] # r[k]

\* the vector an entry returns for x and y when it runs alone (C12)
AloneResult(e, o, x, y) == [k \in LaneIdx(e) |-> LaneResult(x, y, k, e, o)]

\* C13: concurrent callers need no coordination: with the callers' loop
\* iterations interleaved in any order, on shared or on separate argument
\* vectors, every call returns the vector it returns when run alone, and the
\* argument vectors stay as they were.
C13_ConcurrentCallsAsAlone ==
    \A c \in ThreadIds :
        /\ thr[c].pc \in {"loop", "done"} =>
              (thr[c].N = cin[thr[c].src].a /\ thr[c].M = cin[thr[c].src].b)
        /\ thr[c].pc = "done" =>
              thr[c].r = AloneResult(thr[c].entry, thr[c].ovf,
                                     cin[thr[c].src].a, cin[thr[c].src].b)

\* a call has returned its result while another call of the same entry, on
\* other vectors and entered before the first one returned, is in mid-loop
C13_Witness ==
    /\ thr[1].pc = "done"
    /\ thr[1].r = AloneResult(thr[1].entry, thr[1].ovf, cin[1].a, cin[1].b)
    /\ \E k \in LaneIdx(thr[1].entry) : thr[1].r[k] # thr[1].r[0]
    /\ thr[2].pc = "loop"
    /\ thr[2].entry = thr[1].entry
    /\ thr[2].src = 2
    /\ cin[2].a # cin[1].a
    /\ thr[2].i > 0 /\ thr[2].i < Lanes(thr[2].entry)

HelperDone(f) == hpc = "done" /\ hin.fn = f

\* C14: och::clip(val, minval, maxval) returns a value of the closed interval
\* [min(minval, maxval), max(minval, maxval)]: val when val is inside it, the
\* lower bound when val is below, the upper bound when val is above, whichever
\* order the bounds are given in; och::in_range tells whether val is inside.
C14_ClipIntoInterval ==
    LET lo == MinOf({hin.minval, hin.maxval})
        hi == MaxOf({hin.minval, hin.maxval})
    IN  /\ HelperDone("clip") =>
              /\ lo <= hout /\ hout <= hi
              /\ (lo <= hin.val /\ hin.val <= hi) => hout = hin.val
              /\ hin.val < lo => hout = lo
              /\ hin.val > hi => hout = hi
        /\ HelperDone("in_range") => (hout <=> (lo <= hin.val /\ hin.val <= hi))

\* the bounds are given upper first and val lies below both
C14_Witness ==
    /\ HelperDone("clip")
    /\ hin.minval > hin.maxval
    /\ hin.val < hin.maxval
    /\ hout = hin.maxval

\* the greatest absolute difference of channel k over all pixel positions
MaxAbsDiff(expected, actual, k) ==
    MaxOf({Abs(expected.at[<<y, x, k>>] - actual.at[<<y, x, k>>]) :
              y \in 0 .. expected.rows - 1, x \in 0 .. expected.cols - 1})

\* C15: och::auto_compare<T>(expected, actual) on matrices of equal rows and
\* cols returns for each channel k the maximum over all pixel positions of
\* |expected(i,j)[k] - actual(i,j)[k]|; when rows or cols differ it returns
\* (-1, -1, -1, -1).
C15_AutoCompareMaxAbsDiff ==
    HelperDone("auto_compare") =>
        IF hin.expected.rows = hin.actual.rows /\ hin.expected.cols = hin.actual.cols
        THEN \A k \in 0 .. hin.expected.cn - 1 :
                hout[k + 1] = MaxAbsDiff(hin.expected, hin.actual, k)
        ELSE hout = <<-1, -1, -1, -1>>

\* C16: och::get_regular_polygon_vertices accepts every n with 3 <= n <= 50
\* and returns exactly n vertices for it; for any other n it returns an empty
\* list.
C16_PolygonHasNVertices ==
    HelperDone("get_regular_polygon_vertices") =>
        Len(hout) = IF 3 <= hin.n /\ hin.n <= 50 THEN hin.n ELSE 0

\* same rows, cols, channel count and type, and every pair of elements at the
\* same position differs by at most eps
WithinEps(expected, actual, eps) ==
    /\ expected.rows = actual.rows
    /\ expected.cols = actual.cols
    /\ expected.cn = actual.cn
    /\ MatType(expected) = MatType(actual)
    /\ \A q \in Positions(expected.rows, expected.cols, expected.cn) :
          Abs(expected.at[q] - actual.at[q]) <= eps

\* C17 as stated: och::almostEqual(expected, actual, eps) returns true exactly
\* when the matrices have the same rows, cols, channel count and type and
\* every pair of same-position elements differs by at most eps, for every
\* matrix depth; a matrix compared with an identical copy gives true.
C17_AlmostEqualEveryDepth ==
    HelperDone("almostEqual") =>
        /\ hout <=> WithinEps(hin.expected, hin.actual, hin.eps)
        /\ hin.expected = hin.actual => hout

\* C17, amended: the statement holds for the depths CV_8U, CV_8S, CV_16U,
\* CV_16S, CV_32S, CV_32F and CV_64F; for depth CV_16F och::almostEqual
\* returns false whatever the matrices hold, an identical copy included.
C17_AlmostEqualComparedDepths ==
    HelperDone("almostEqual") =>
        /\ hin.expected.depth \in ComparedDepths =>
              /\ hout <=> WithinEps(hin.expected, hin.actual, hin.eps)
              /\ hin.expected = hin.actual => hout
        /\ hin.expected.depth \notin ComparedDepths => ~hout

\* two-channel matrices of two rows that differ by eps in their last element
\* are found almost equal
C17_Witness ==
    /\ HelperDone("almostEqual")
    /\ hin.expected.depth = "CV_32F"
    /\ hin.expected.rows = 2 /\ hin.expected.cols = 2 /\ hin.expected.cn = 2
    /\ hin.eps = 1
    /\ Abs(hin.expected.at[<<1, 1, 1>>] - hin.actual.at[<<1, 1, 1>>]) = 1
    /\ hout = TRUE

\* the lesser and the greater of two lane values
ZMin(x, y) == IF ZLe(x, y) THEN x ELSE y

ZMax(x, y) == IF ZLe(x, y) THEN y ELSE x

\* C21: the result is an average: in all 12 entries, for in-domain inputs,
\* every returned lane lies between the two input lanes:
\* min(N[i], M[i]) <= D[i] <= max(N[i], M[i]).
C21_ResultBetweenInputs ==
    Returned =>
        \A k \in LaneIdx(entry) :
            (InDomain(a[k], entry) /\ InDomain(b[k], entry)) =>
                /\ ZLe(ZMin(a[k], b[k]), r[k])
                /\ ZLe(r[k], ZMax(a[k], b[k]))

=============================================================================
